---- MODULE Spec2Model ----
(***************************************************************************)
(* A model of the skip list of src/src/skiplist.rs: the reference-counted  *)
(* node graph (right/down owning links, left/up weak links), the Level     *)
(* operations and the SkipList operations built on them.                   *)
(*                                                                         *)
(* Nodes live in `heap`, a function from node identifiers to node records. *)
(* A node is in the heap exactly while some Rc to it exists, i.e. while it *)
(* is reachable from a level head through right/down links.  A Weak link   *)
(* whose target is not in the heap no longer upgrades.                     *)
(* Rust indexes levels from 0; so does `levels`, a function on 0..n-1.     *)
(***************************************************************************)
EXTENDS Integers, Sequences, FiniteSets, TLC

\* Bounds of the model.
MaxKey == 3
MaxVal == 2
MaxFlips == 2
MaxFlipsAny == 1
MaxSize == 3
MaxDeletes == 4
MaxDeletesCalls == 2
MaxHeld == 1

Keys == 1..MaxKey
Vals == 1..MaxVal

\* Option::None, for links and for returned values.
None == 0

VARIABLES
  heap,      \* node id -> Node, the nodes some Rc keeps alive
  levels,    \* SkipList.levels: level index -> Level
  size,      \* SkipList.size
  panicked,  \* a panic has aborted the program
  wrapped,   \* a usize subtraction has wrapped (build without overflow checks)
  ret,       \* what the last call returned
  entries,   \* history: the pairs inserted and not yet deleted, oldest first
  inserted,  \* history: the keys ever passed to insert
  deletes,   \* history: the number of calls of delete
  phase,     \* history of the round-trip runs (see SpecRoundTrip)
  held       \* the nodes Level::insert returned that its caller still holds

vars ==
  <<heap, levels, size, panicked, wrapped, ret, entries, inserted, deletes, phase, held>>

----------------------------------------------------------------------------
\* struct Node / Node::new
Node(k, v) ==
  [key |-> k, value |-> v, right |-> None, down |-> None, left |-> None, up |-> None]

\* struct Level / Level::new
NewLevel == [size |-> 0, head |-> None]

\* Vec::len of SkipList.levels
NumLevels(lv) == Cardinality(DOMAIN lv)

\* usize arithmetic.  A counter that wrapped below zero is kept as the
\* negative number n standing for 2^64 + n, so +1 and -1 stay exact.
Add1(n) == n + 1
Sub1(n) == n - 1
Underflows(n) == n = 0
GreaterThanOne(n) == n > 1 \/ n < 0

\* A Weak link whose node has been dropped. Such links cannot be told apart:
\* all the program does with a Weak is upgrade it.
Dangling == -1

\* Weak::upgrade: the node, while a strong reference keeps it alive.
Upgrade(h, w) == IF w \in DOMAIN h THEN w ELSE None

\* The level heads that are set, lowest level first
RECURSIVE Heads(_, _)
Heads(lv, i) ==
  IF i >= NumLevels(lv) THEN <<>>
  ELSE (IF lv[i].head = None THEN <<>> ELSE <<lv[i].head>>) \o Heads(lv, i + 1)

\* The nodes some Rc keeps alive: those the level heads reach through the
\* owning links right and down, in the order a breadth-first walk meets them.
RECURSIVE Owned(_, _, _)
Owned(h, seq, i) ==
  IF i > Len(seq) THEN seq
  ELSE LET r == h[seq[i]].right
           d == h[seq[i]].down
           met == {seq[j] : j \in 1..Len(seq)}
           s1 == IF r # None /\ r \notin met THEN Append(seq, r) ELSE seq
           s2 == IF d # None /\ d # r /\ d \notin met THEN Append(s1, d) ELSE s1
       IN Owned(h, s2, i + 1)

\* The nodes of a sequence of nodes
Range(o) == {o[j] : j \in 1..Len(o)}

\* Rc drop: a node no level head reaches through owning links is freed.
Drop(h, lv) == [x \in Range(Owned(h, Heads(lv, 0), 1)) |-> h[x]]

\* Node identifiers stand for addresses, which the program never observes, so
\* a state is kept with its live nodes named 1..n in the order o of Owned and
\* its dead Weak links as Dangling.
Rename(h, lv, o) ==
  LET pos(x) == CHOOSE j \in 1..Len(o) : o[j] = x
      strong(l) == IF l = None THEN None ELSE pos(l)
      weak(w) == IF w = None THEN None ELSE IF w \in Range(o) THEN pos(w) ELSE Dangling
  IN [heap |-> [j \in 1..Len(o) |->
                  [key |-> h[o[j]].key, value |-> h[o[j]].value,
                   right |-> strong(h[o[j]].right), down |-> strong(h[o[j]].down),
                   left |-> weak(h[o[j]].left), up |-> weak(h[o[j]].up)]],
      levels |-> [i \in DOMAIN lv |-> [lv[i] EXCEPT !.head = strong(lv[i].head)]]]

Canonical(h, lv) == Rename(h, lv, Owned(h, Heads(lv, 0), 1))

\* Rc::new: a fresh allocation, at an address no node occupies.
NewId(h) ==
  CHOOSE n \in 1..(Cardinality(DOMAIN h) + 1) :
    n \notin DOMAIN h /\ \A m \in 1..(n - 1) : m \in DOMAIN h

\* Level::iter / Iter::next: the nodes from `cur` along right links.
RECURSIVE Chain(_, _)
Chain(h, cur) == IF cur = None THEN <<>> ELSE <<cur>> \o Chain(h, h[cur].right)

\* Node::cmp: the node's key against a key
Cmp(n, key) ==
  IF n.key < key THEN "Less" ELSE IF n.key = key THEN "Equal" ELSE "Greater"

\* Iterator::find with the closures of Level::bisect and Level::delete: the
\* first node of the iteration that compares as `ord` to the key
Find(h, cur, ord, key) ==
  LET c == Chain(h, cur)
      hits == {i \in 1..Len(c) : Cmp(h[c[i]], key) = ord}
  IN IF hits = {} THEN None
     ELSE c[CHOOSE i \in hits : \A j \in hits : i <= j]

\* Iterator::last
Last(s) == IF s = <<>> THEN None ELSE s[Len(s)]

----------------------------------------------------------------------------
\* Level::bisect, were Equal handled like Greater by the closure: the marker
\* is the first node whose key is not less than the key
BisectFirstNotLess(h, lvl, key) ==
  LET c == Chain(h, lvl.head)
      hits == {i \in 1..Len(c) : h[c[i]].key >= key}
  IN IF hits # {}
     THEN Upgrade(h, h[c[CHOOSE i \in hits : \A j \in hits : i <= j]].left)
     ELSE Last(c)

\* Level::bisect
Bisect(h, lvl, key) ==
  LET LeftOf(maybe_marker) ==
        IF maybe_marker # None
        THEN Upgrade(h, h[maybe_marker].left)
        ELSE Last(Chain(h, lvl.head))
  IN LeftOf(Find(h, lvl.head, "Greater", key))

\* Level::bisect_after's loop, were Equal handled like Greater's stop: the
\* scan ends on the first node of the target key
RECURSIVE BisectAfterLoopFirstEqual(_, _, _, _)
BisectAfterLoopFirstEqual(h, maybe_current, prev, target) ==
  IF maybe_current = None THEN <<None, prev>>
  ELSE LET current == maybe_current IN
       IF h[current].key < target
       THEN BisectAfterLoopFirstEqual(h, h[current].right, current, target)
       ELSE IF h[current].key = target THEN <<None, current>>
       ELSE <<Upgrade(h, h[current].left), current>>

\* Level::bisect_after, the while loop: returns <<output, prev>>
RECURSIVE BisectAfterLoop(_, _, _, _)
BisectAfterLoop(h, maybe_current, prev, target) ==
  IF maybe_current = None THEN <<None, prev>>
  ELSE LET current == maybe_current IN
       IF h[current].key <= target
       THEN BisectAfterLoop(h, h[current].right, current, target)
       ELSE <<Upgrade(h, h[current].left), current>>

\* Level::bisect_after without the early return of lines 92-94 for a node
\* greater than the target
BisectAfterNoGuard(h, node, target) ==
  LET Point(r) == IF r[1] # None THEN r[1] ELSE r[2]
  IN Point(BisectAfterLoop(h, node, Upgrade(h, h[node].left), target))

\* Level::bisect_after
BisectAfter(h, node, target) ==
  LET Point(r) == IF r[1] # None THEN r[1] ELSE r[2]
  IN IF h[node].key > target THEN None
     ELSE Point(BisectAfterLoop(h, node, Upgrade(h, h[node].left), target))

\* Level::insert's scan, were Equal handled like Greater: the new node goes
\* before the nodes of its key
RECURSIVE ScanPrevStrict(_, _, _, _)
ScanPrevStrict(h, head, key, maybe_prev_node) ==
  IF head = None THEN maybe_prev_node
  ELSE IF h[head].key < key
       THEN ScanPrevStrict(h, h[head].right, key, head)
       ELSE maybe_prev_node

\* Level::insert, the scan for maybe_prev_node
RECURSIVE ScanPrev(_, _, _, _)
ScanPrev(h, head, key, maybe_prev_node) ==
  IF head = None THEN maybe_prev_node
  ELSE IF h[head].key <= key
       THEN ScanPrev(h, h[head].right, key, head)
       ELSE maybe_prev_node

\* Level::insert, the match on maybe_prev_node, the new node allocated at n:
\* returns the heap, the level and the node created
LevelInsertAt(h, lvl, key, value, maybe_prev_node, n) ==
  LET h0 == (n :> Node(key, value)) @@ h
  IN IF maybe_prev_node = None
     THEN \* insert at head
          [heap |-> IF lvl.head # None
                    THEN [h0 EXCEPT ![n].right = lvl.head, ![lvl.head].left = n]
                    ELSE h0,
           lvl |-> [size |-> Add1(lvl.size), head |-> n],
           node |-> n]
     ELSE LET prev_node == maybe_prev_node
              maybe_next_node == h[prev_node].right
          IN [heap |-> IF maybe_next_node # None
                       THEN \* insert in the middle
                            [h0 EXCEPT ![maybe_next_node].left = n,
                                       ![n].right = maybe_next_node,
                                       ![n].left = prev_node,
                                       ![prev_node].right = n]
                       ELSE \* insert at tail
                            [h0 EXCEPT ![n].left = prev_node,
                                       ![prev_node].right = n],
              lvl |-> [lvl EXCEPT !.size = Add1(lvl.size)],
              node |-> n]

\* Level::insert without the scan: the new node goes after the last node of
\* the level, whatever the keys
LevelInsertAtTail(h, lvl, key, value) ==
  LevelInsertAt(h, lvl, key, value, Last(Chain(h, lvl.head)), NewId(h))

\* Level::insert
LevelInsert(h, lvl, key, value) ==
  LevelInsertAt(h, lvl, key, value, ScanPrev(h, lvl.head, key, None), NewId(h))

\* Level::delete, the unlinking of the node found (lines 202-218); found
\* tells whether `self.size -= 1` follows
LevelDeleteNode(h, lvl, maybe_node) ==
  IF maybe_node = None THEN [heap |-> h, lvl |-> lvl, found |-> FALSE]
  ELSE LET to_delete == maybe_node
           maybe_prev_node == Upgrade(h, h[to_delete].left)
           maybe_new_next == h[to_delete].right
       IN IF maybe_prev_node # None
          THEN LET h1 == IF maybe_new_next # None
                         THEN [h EXCEPT ![maybe_new_next].left = maybe_prev_node]
                         ELSE h
               IN [heap |-> [h1 EXCEPT ![to_delete].right = None,
                                       ![maybe_prev_node].right = maybe_new_next],
                   lvl |-> lvl, found |-> TRUE]
          ELSE \* handle deleting head
               [heap |-> [h EXCEPT ![to_delete].right = None,
                                   ![to_delete].left = None],
                lvl |-> [lvl EXCEPT !.head = maybe_new_next],
                found |-> TRUE]

\* Level::delete, the search and the unlinking (lines 196-218)
LevelDeleteUnlink(h, lvl, key) ==
  LevelDeleteNode(h, lvl, Find(h, lvl.head, "Equal", key))

\* Level::delete, `self.size -= 1` after the unlinking r, which panics when
\* the build checks overflow (chk) and wraps otherwise
LevelDeleteSize(h, lvl, r, chk) ==
  IF ~r.found
  THEN [heap |-> h, lvl |-> lvl, panicked |-> FALSE, wrapped |-> FALSE]
  ELSE IF Underflows(r.lvl.size) /\ chk
  THEN [heap |-> r.heap, lvl |-> r.lvl, panicked |-> TRUE, wrapped |-> FALSE]
  ELSE [heap |-> r.heap, lvl |-> [r.lvl EXCEPT !.size = Sub1(r.lvl.size)],
        panicked |-> FALSE, wrapped |-> Underflows(r.lvl.size)]

\* Level::delete
LevelDelete(h, lvl, key, chk) ==
  LevelDeleteSize(h, lvl, LevelDeleteUnlink(h, lvl, key), chk)

----------------------------------------------------------------------------
\* SkipList::new
NewSkipList == [size |-> 0, levels |-> (0 :> NewLevel)]

\* What a step of SkipList::insert leaves: the heap and the levels
Ok(h, lv) == [heap |-> h, levels |-> lv, panicked |-> FALSE]

\* SkipList::add_level
AddLevel(h, lv) ==
  LET n == NumLevels(lv)
      prev_head == lv[n - 1].head
      Push(r) == Ok([r.heap EXCEPT ![prev_head].up = r.node,
                                   ![r.node].down = prev_head],
                    (n :> r.lvl) @@ lv)
  IN IF prev_head = None
     THEN [heap |-> h, levels |-> lv, panicked |-> TRUE]
     ELSE Push(LevelInsert(h, NewLevel, h[prev_head].key, h[prev_head].value))

\* SkipList::insert, lines 262-269: the new head is added to every level
RECURSIVE InsertHead(_, _, _, _, _, _)
InsertHead(h, lv, counter, new_head, key, value) ==
  LET Linked(r) ==
        InsertHead([r.heap EXCEPT ![r.node].down = new_head,
                                  ![new_head].up = r.node],
                   [lv EXCEPT ![counter] = r.lvl],
                   counter + 1, r.node, key, value)
  IN IF counter >= NumLevels(lv) THEN Ok(h, lv)
     ELSE Linked(LevelInsert(h, lv[counter], key, value))

\* SkipList::insert, lines 273-286: one iteration per flip_coin() = true;
\* `flips` is the number of such flips before the first false
RECURSIVE Promote(_, _, _, _, _, _, _)
Promote(h, lv, counter, prev, key, value, flips) ==
  LET Linked(a, r) ==
        Promote([r.heap EXCEPT ![prev].up = r.node, ![r.node].down = prev],
                [a.levels EXCEPT ![counter] = r.lvl],
                counter + 1, r.node, key, value, flips - 1)
      Added(a) ==
        IF a.panicked THEN a
        ELSE IF GreaterThanOne(a.levels[0].size)
        THEN Linked(a, LevelInsert(a.heap, a.levels[counter], key, value))
        ELSE Promote(a.heap, a.levels, counter, prev, key, value, flips - 1)
  IN IF flips = 0 THEN Ok(h, lv)
     ELSE Added(IF counter >= NumLevels(lv) THEN AddLevel(h, lv) ELSE Ok(h, lv))

\* SkipList::insert from line 258 on, were `self.size += 1` of line 270
\* missing: the head path returns without counting the pair
SkipListInsertUpHeadUncounted(lv, sz, key, value, flips, r0) ==
  LET prev == r0.node
      new_head == r0.lvl.head
      lv0 == [lv EXCEPT ![0] = r0.lvl]
      Done(r, n) == [heap |-> r.heap, levels |-> r.levels, panicked |-> r.panicked,
                     size |-> IF r.panicked THEN sz ELSE n]
  IN IF r0.heap[new_head].key = key
     THEN Done(InsertHead(r0.heap, lv0, 1, new_head, key, value), sz)
     ELSE Done(Promote(r0.heap, lv0, 1, prev, key, value, flips), Add1(sz))

\* SkipList::insert, from line 258 on, r0 what levels[0].insert left
SkipListInsertUp(lv, sz, key, value, flips, r0) ==
  LET prev == r0.node
      new_head == r0.lvl.head
      lv0 == [lv EXCEPT ![0] = r0.lvl]
      Done(r) == [heap |-> r.heap, levels |-> r.levels, panicked |-> r.panicked,
                  size |-> IF r.panicked THEN sz ELSE Add1(sz)]
  IN Done(IF r0.heap[new_head].key = key
          THEN InsertHead(r0.heap, lv0, 1, new_head, key, value)
          ELSE Promote(r0.heap, lv0, 1, prev, key, value, flips))

\* SkipList::insert
SkipListInsert(h, lv, sz, key, value, flips) ==
  SkipListInsertUp(lv, sz, key, value, flips, LevelInsert(h, lv[0], key, value))

\* SkipList::get, the descent loop of lines 295-300
RECURSIVE GetDescend(_, _, _, _, _)
GetDescend(h, lv, i, maybe_prev, key) ==
  IF i < NumLevels(lv) /\ maybe_prev # None
  THEN LET after == h[maybe_prev].down
       IN IF after = None
          THEN [panicked |-> TRUE, node |-> None]
          ELSE GetDescend(h, lv, i + 1, BisectAfter(h, after, key), key)
  ELSE [panicked |-> FALSE, node |-> maybe_prev]

\* SkipList::get, lines 291-300: the bisect of the top level and the descent
GetFind(h, lv, key) ==
  GetDescend(h, lv, 1, Bisect(h, lv[NumLevels(lv) - 1], key), key)

\* SkipList::get, were the node found returned without comparing its key
SkipListGetNoCompare(h, lv, key) ==
  LET Found(r) ==
        IF r.panicked THEN [panicked |-> TRUE, value |-> None]
        ELSE [panicked |-> FALSE,
              value |-> IF r.node # None THEN h[r.node].value ELSE None]
  IN Found(GetFind(h, lv, key))

\* SkipList::get
SkipListGet(h, lv, key) ==
  LET Found(r) ==
        IF r.panicked THEN [panicked |-> TRUE, value |-> None]
        ELSE [panicked |-> FALSE,
              value |-> IF r.node # None /\ h[r.node].key = key
                        THEN h[r.node].value ELSE None]
  IN Found(GetFind(h, lv, key))

\* SkipList::delete, the loop over the levels; each Level::delete ends by
\* dropping its local reference to the unlinked node
RECURSIVE DeleteLevels(_, _, _, _, _)
DeleteLevels(h, lv, i, key, chk) ==
  LET Rest(r, rest) == [rest EXCEPT !.wrapped = @ \/ r.wrapped]
      Dropped(r, lv1, h1) ==
        IF r.panicked
        THEN [heap |-> h1, levels |-> lv1, panicked |-> TRUE, wrapped |-> FALSE]
        ELSE Rest(r, DeleteLevels(h1, lv1, i + 1, key, chk))
      Set(r, lv1) == Dropped(r, lv1, Drop(r.heap, lv1))
      Deleted(r) == Set(r, [lv EXCEPT ![i] = r.lvl])
  IN IF i >= NumLevels(lv)
     THEN [heap |-> h, levels |-> lv, panicked |-> FALSE, wrapped |-> FALSE]
     ELSE Deleted(LevelDelete(h, lv[i], key, chk))

\* SkipList::delete, were a top level that delete emptied popped off the list
SkipListDeleteShrinks(h, lv, sz, key, chk) ==
  LET top(r) == NumLevels(r.levels) - 1
      Done(r) ==
        [heap |-> r.heap,
         levels |-> IF top(r) > 0 /\ r.levels[top(r)].head = None
                    THEN [i \in 0..(top(r) - 1) |-> r.levels[i]]
                    ELSE r.levels,
         panicked |-> r.panicked, wrapped |-> r.wrapped,
         size |-> IF r.panicked THEN sz ELSE r.levels[0].size]
  IN Done(DeleteLevels(h, lv, 0, key, chk))

\* SkipList::delete, were size not read again from level 0
SkipListDeleteKeepsSize(h, lv, sz, key, chk) ==
  LET Done(r) == [heap |-> r.heap, levels |-> r.levels, panicked |-> r.panicked,
                  wrapped |-> r.wrapped, size |-> sz]
  IN Done(DeleteLevels(h, lv, 0, key, chk))

\* SkipList::delete
SkipListDelete(h, lv, sz, key, chk) ==
  LET Done(r) == [heap |-> r.heap, levels |-> r.levels, panicked |-> r.panicked,
                  wrapped |-> r.wrapped,
                  size |-> IF r.panicked THEN sz ELSE r.levels[0].size]
  IN Done(DeleteLevels(h, lv, 0, key, chk))

\* Vec::reverse
Reverse(s) == [i \in 1..Len(s) |-> s[Len(s) + 1 - i]]

\* SkipList::bisect, the loop of lines 337-344 from the top level down: each
\* round unwraps the node bisect_after returns and then its down link.
\* bisect_after walks from the node it is given and reads no field of the
\* level it is called on, so the level index does not enter.
RECURSIVE BisectLevels(_, _, _, _, _, _)
BisectLevels(h, lv, i, prev, key, output) ==
  LET Pushed(node) ==
        IF node = None \/ h[node].down = None
        THEN [panicked |-> TRUE, output |-> output]
        ELSE BisectLevels(h, lv, i + 1, h[node].down, key, Append(output, node))
  IN IF i >= NumLevels(lv) THEN [panicked |-> FALSE, output |-> Reverse(output)]
     ELSE Pushed(BisectAfter(h, prev, key))

\* SkipList::bisect: the insertion points it leaves in `output`, level 0
\* first; it starts from level 0's head, which it unwraps
SkipListBisect(h, lv, key) ==
  IF NumLevels(lv) = 0 THEN [panicked |-> FALSE, output |-> <<>>]
  ELSE IF lv[0].head = None THEN [panicked |-> TRUE, output |-> <<>>]
  ELSE BisectLevels(h, lv, 0, lv[0].head, key, <<>>)

\* SkipList::collect (through SkipList::iter)
SkipListCollect(h, lv) ==
  LET Pairs(c) == [i \in 1..Len(c) |-> <<h[c[i]].key, h[c[i]].value>>]
  IN Pairs(Chain(h, lv[0].head))

----------------------------------------------------------------------------
\* History variables: what the calls made so far ask for.

\* The pairs in key order, equal keys in insertion order, with <<k, v>> added
RefInsert(es, k, v) ==
  LET before == SelectSeq(es, LAMBDA e : e[1] <= k)
      after == SelectSeq(es, LAMBDA e : e[1] > k)
  IN before \o <<<<k, v>>>> \o after

\* The pairs with the earliest-inserted pair of key k removed
RefDelete(es, k) ==
  LET hits == {i \in 1..Len(es) : es[i][1] = k}
  IN IF hits = {} THEN es
     ELSE LET d == CHOOSE i \in hits : \A j \in hits : i <= j
          IN SubSeq(es, 1, d - 1) \o SubSeq(es, d + 1, Len(es))

Unit == [kind |-> "unit"]

----------------------------------------------------------------------------
\* The state after SkipList::new, no call made yet
Start ==
  /\ heap = <<>>
  /\ levels = NewSkipList.levels
  /\ size = NewSkipList.size
  /\ panicked = FALSE
  /\ wrapped = FALSE
  /\ ret = Unit
  /\ entries = <<>>
  /\ inserted = {}
  /\ deletes = 0
  /\ held = <<>>

\* list.insert(key, value), the coin giving `flips` times true, then false
Insert(key, value, flips) ==
  /\ ~panicked
  /\ \E r \in {SkipListInsert(heap, levels, size, key, value, flips)} :
       /\ \E c \in {Canonical(r.heap, r.levels)} :
            heap' = c.heap /\ levels' = c.levels
       /\ size' = r.size
       /\ panicked' = r.panicked
  /\ ret' = Unit
  /\ entries' = RefInsert(entries, key, value)
  /\ inserted' = inserted \cup {key}
  /\ UNCHANGED <<wrapped, deletes, held>>

\* list.delete(&key). The first usize subtraction below zero panics in a
\* build that checks overflow and wraps in one that does not; once a counter
\* has wrapped, the build is one that does not check.
Delete(key) ==
  /\ ~panicked
  /\ \E chk \in BOOLEAN :
       /\ wrapped => ~chk
       /\ \E r \in {SkipListDelete(heap, levels, size, key, chk)} :
            /\ \E c \in {Canonical(r.heap, r.levels)} :
                 heap' = c.heap /\ levels' = c.levels
            /\ size' = r.size
            /\ panicked' = r.panicked
            /\ wrapped' = (wrapped \/ r.wrapped)
  /\ ret' = Unit
  /\ entries' = RefDelete(entries, key)
  /\ deletes' = deletes + 1
  /\ UNCHANGED <<inserted, held>>

\* list.get(&key), were the down link taken out of the node the top level's
\* bisect returns (Option::take on the node's field) instead of cloned
GetTakesDown(key) ==
  /\ ~panicked
  /\ \E r \in {SkipListGet(heap, levels, key)} :
       /\ panicked' = r.panicked
       /\ ret' = IF r.panicked THEN Unit ELSE [kind |-> "value", value |-> r.value]
  /\ \E p \in {Bisect(heap, levels[NumLevels(levels) - 1], key)} :
       \E c \in {Canonical(IF p # None THEN [heap EXCEPT ![p].down = None] ELSE heap,
                           levels)} :
         heap' = c.heap /\ levels' = c.levels
  /\ UNCHANGED <<size, wrapped, entries, inserted, deletes, held>>

\* list.get(&key)
Get(key) ==
  /\ ~panicked
  /\ \E r \in {SkipListGet(heap, levels, key)} :
       /\ panicked' = r.panicked
       /\ ret' = IF r.panicked THEN Unit ELSE [kind |-> "value", value |-> r.value]
  /\ UNCHANGED <<heap, levels, size, wrapped, entries, inserted, deletes, held>>

\* list.collect()
Collect ==
  /\ ~panicked
  /\ ret' = [kind |-> "pairs", pairs |-> SkipListCollect(heap, levels)]
  /\ UNCHANGED <<heap, levels, size, panicked, wrapped, entries, inserted, deletes, held>>

\* The bound on the model: an insert is taken while fewer than MaxSize pairs
\* are inserted and not deleted, every level holds fewer than MaxSize nodes, in
\* its chain and by its counter, and the heap fewer than MaxSize nodes per
\* possible level
CanInsert ==
  /\ Len(entries) < MaxSize
  /\ \A i \in DOMAIN levels :
       /\ Len(Chain(heap, levels[i].head)) < MaxSize
       /\ levels[i].size < MaxSize
  /\ Cardinality(DOMAIN heap) < MaxSize * (MaxFlips + 1)

\* The bound on the model: at most MaxDeletes calls of delete
CanDelete == deletes < MaxDeletes

----------------------------------------------------------------------------
\* Any sequence of insert and delete calls on a new list, the coin giving at
\* most MaxFlipsAny times true in an insert.
Init == Start /\ phase = "any"

Next ==
  \/ \E k \in Keys, v \in Vals, f \in 0..MaxFlipsAny :
       CanInsert /\ Insert(k, v, f) /\ UNCHANGED phase
  \/ \E k \in Keys :
       CanDelete /\ Delete(k) /\ UNCHANGED phase

Spec == Init /\ [][Next]_vars

\* The bound on the runs with get and collect: at most MaxDeletesCalls calls
\* of delete
CanDeleteCalls == deletes < MaxDeletesCalls

\* Any sequence of insert, delete, get and collect calls on a new list.
NextCalls ==
  \/ \E k \in Keys, v \in Vals, f \in 0..MaxFlipsAny :
       CanInsert /\ Insert(k, v, f) /\ UNCHANGED phase
  \/ \E k \in Keys :
       CanDeleteCalls /\ Delete(k) /\ UNCHANGED phase
  \/ \E k \in Keys : Get(k) /\ UNCHANGED phase
  \/ Collect /\ UNCHANGED phase

SpecCalls == Init /\ [][NextCalls]_vars

\* Any sequence of insert calls on a new list.
NextInsertOnly ==
  \E k \in Keys, v \in Vals, f \in 0..MaxFlips :
    CanInsert /\ Insert(k, v, f) /\ UNCHANGED phase

SpecInsertOnly == Init /\ [][NextInsertOnly]_vars

\* Round trips: on a new list, inserts of pairwise distinct keys, then deletes
\* of keys inserted and not yet deleted.
InitRoundTrip == Start /\ phase = "insert"

NextRoundTrip ==
  \/ \E k \in Keys \ inserted, v \in Vals, f \in 0..MaxFlips :
       phase = "insert" /\ CanInsert /\ Insert(k, v, f) /\ UNCHANGED phase
  \/ \E k \in {entries[i][1] : i \in 1..Len(entries)} :
       Delete(k) /\ phase' = "delete"

SpecRoundTrip == InitRoundTrip /\ [][NextRoundTrip]_vars

----------------------------------------------------------------------------
\* What the calls of the claims return in the current state.
CollectNow == SkipListCollect(heap, levels)
GetNow(k) == SkipListGet(heap, levels, k)
Found(v) == [panicked |-> FALSE, value |-> v]
Absent == [panicked |-> FALSE, value |-> None]

\* The nodes of level i, along the forward links from its head
LevelChain(i) == Chain(heap, levels[i].head)
NodesOf(i) == {LevelChain(i)[j] : j \in 1..Len(LevelChain(i))}

KeysOf(es) == {es[i][1] : i \in 1..Len(es)}
CountOf(es, k) == Cardinality({i \in 1..Len(es) : es[i][1] = k})

\* The value of the pair of key k inserted last, among the pairs es
LastValue(es, k) ==
  LET hits == {i \in 1..Len(es) : es[i][1] = k}
  IN es[CHOOSE i \in hits : \A j \in hits : j <= i][2]

NonDecreasing(es) == \A i \in 1..(Len(es) - 1) : es[i][1] <= es[i + 1][1]

\* C1: after any insert and delete calls, get(k) of a key with a pair inserted
\* and not yet deleted returns the value of the most recent insert of k.
C1_GetReturnsLatest ==
  ~panicked => \A k \in KeysOf(entries) : GetNow(k) = Found(LastValue(entries, k))

\* C2: delete(k) of a key the list holds removes from collect() exactly the
\* leftmost pair of key k, keeps the others in order, and lowers size by one.
C2_DeleteRemovesLeftmost ==
  [][\A k \in Keys :
       (k \in KeysOf(CollectNow) /\ Delete(k) /\ ~panicked')
         => /\ CollectNow' = RefDelete(CollectNow, k)
            /\ size' = size - 1]_vars

\* C3: after any insert and delete calls, size is the number of pairs of
\* collect().
C3_SizeIsCollectLen == ~panicked => size = Len(CollectNow)

\* C4: after insert calls only, collect() is the inserted pairs in
\* non-decreasing key order, equal keys in insertion order.
C4_CollectSortedStable == CollectNow = entries /\ NonDecreasing(CollectNow)

\* Three pairs inserted, two of one key with different values, on two levels
\* or more, and collect() returns them
C4_Witness ==
  /\ Len(entries) = 3
  /\ NumLevels(levels) > 1
  /\ \E i \in 1..2 : entries[i][1] = entries[i + 1][1] /\ entries[i][2] # entries[i + 1][2]
  /\ CollectNow = entries

\* C5: when the list holds exactly one pair of key k, get(k) after delete(k)
\* returns absent.
C5_GetAbsentAfterDelete ==
  [][\A k \in Keys :
       (CountOf(CollectNow, k) = 1 /\ Delete(k) /\ ~panicked')
         => GetNow(k)' = Absent]_vars

\* C6: after insert calls only, get(k) of an inserted key returns the value
\* of the most recent insert of k, read from a node of level 0 of key k that
\* the descent from the top level ends on.
C6_GetAfterInserts ==
  \A k \in KeysOf(entries) :
    LET r == GetFind(heap, levels, k)
    IN /\ ~r.panicked
       /\ r.node \in NodesOf(0)
       /\ heap[r.node].key = k
       /\ GetNow(k) = Found(LastValue(entries, k))

\* A key inserted twice with different values, on two levels or more, and
\* get returns the second value
C6_Witness ==
  /\ NumLevels(levels) > 1
  /\ \E k \in KeysOf(entries) :
       /\ CountOf(entries, k) > 1
       /\ \E i \in 1..Len(entries) : entries[i][1] = k /\ entries[i][2] # LastValue(entries, k)
       /\ GetNow(k) = Found(LastValue(entries, k))

\* C7: after any insert and delete calls, get(k) returns absent for a key
\* never passed to insert.
C7_GetAbsentNeverInserted ==
  ~panicked => \A k \in Keys \ inserted : GetNow(k) = Absent

\* After inserts and a delete, a key never inserted lies between two keys the
\* list holds, and get returns absent for it
C7_Witness ==
  /\ ~panicked
  /\ deletes > 0
  /\ NumLevels(levels) > 1
  /\ \E k \in Keys \ inserted :
       /\ \E a, b \in KeysOf(CollectNow) : a < k /\ k < b
       /\ GetNow(k) = Absent

\* C8: on a new list, inserting pairwise distinct keys and then deleting
\* each of them once leaves size 0 and collect() empty.
C8_RoundTripEmpty ==
  (phase = "delete" /\ entries = <<>>)
    => ~panicked /\ size = 0 /\ CollectNow = <<>>

\* Every key was inserted, on two levels or more, and every key deleted
C8_Witness ==
  /\ phase = "delete"
  /\ entries = <<>>
  /\ inserted = Keys
  /\ NumLevels(levels) > 1
  /\ size = 0
  /\ CollectNow = <<>>

\* C9: no call ends in a fatal failure: no absent link is unwrapped and no
\* level's size counter is decremented below zero.
C9_NoFatalFailure == ~panicked /\ ~wrapped

\* C10: after any insert and delete calls, every node of a level i > 0 has a
\* down link to a node of level i-1's forward chain with an equal key.
C10_DownLinks ==
  ~panicked =>
    \A i \in DOMAIN levels \ {0} : \A x \in NodesOf(i) :
      /\ heap[x].down # None
      /\ heap[x].down \in NodesOf(i - 1)
      /\ heap[heap[x].down].key = heap[x].key

\* What the calls return in the state a step leads to
CollectNext == SkipListCollect(heap', levels')
GetNext(k) == SkipListGet(heap', levels', k)

\* C11: after any insert and delete calls, when level 0 is not empty, no
\* level is empty and every level's head has the key of level 0's head.
C11_HeadsAligned ==
  (~panicked /\ levels[0].head # None) =>
    \A i \in DOMAIN levels :
      /\ levels[i].head # None
      /\ heap[levels[i].head].key = heap[levels[0].head].key

\* C12: delete(k) of a key with no node in level 0 leaves size, collect() and
\* the result of every get as they were.
C12_DeleteAbsentNoEffect ==
  [][\A k \in Keys :
       (k \notin KeysOf(CollectNow) /\ Delete(k) /\ ~panicked')
         => /\ size' = size
            /\ CollectNext = CollectNow
            /\ \A j \in Keys : GetNext(j) = GetNow(j)]_vars

\* The insert of key k takes the head path of SkipList::insert: level 0 is
\* empty, or k is at most the key of its head
HeadPath(k) == levels[0].head = None \/ k <= heap[levels[0].head].key

\* C13: the list has one level at construction; no call lowers the number of
\* levels; delete, get, collect and an insert on the head path keep it; an
\* insert raises it by at most the number of its promote flips.
C13_LevelCount ==
  /\ NumLevels(levels) = 1
  /\ [][/\ NumLevels(levels') >= NumLevels(levels)
        /\ \/ NumLevels(levels') = NumLevels(levels)
           \/ ~((\E k \in Keys : Delete(k) \/ Get(k)) \/ Collect)
        /\ \A k \in Keys, f \in 0..MaxFlipsAny :
             \/ /\ NumLevels(levels') <= NumLevels(levels) + f
                /\ HeadPath(k) => NumLevels(levels') = NumLevels(levels)
             \/ ~(\E v \in Vals : Insert(k, v, f))]_vars

\* Promote flips have added a level, and a delete and a get have followed
C13_Witness ==
  /\ NumLevels(levels) = MaxFlipsAny + 1
  /\ deletes > 0
  /\ levels[NumLevels(levels) - 1].head = None
  /\ ret.kind = "value"

\* C14: get and collect change no level's head or size, no node and not the
\* number of levels, so a repeated get or collect returns the same result.
C14_ReadsChangeNothing ==
  [][\/ /\ UNCHANGED <<heap, levels, size>>
        /\ \A j \in Keys : GetNext(j) = GetNow(j)
        /\ CollectNext = CollectNow
     \/ ~((\E k \in Keys : Get(k)) \/ Collect)]_vars

\* A get has returned a value of a list of two levels, after a delete
C14_Witness ==
  /\ NumLevels(levels) > 1
  /\ deletes > 0
  /\ ret.kind = "value"
  /\ ret.value # None

\* The keys a bisect may be asked for: the keys of the model, one below and
\* one above
Queries == 0..(MaxKey + 1)

\* The largest key of the pairs es that is at most k, None when there is none
LargestAtMost(es, k) ==
  LET below == {j \in KeysOf(es) : j <= k}
  IN IF below = {} THEN None ELSE CHOOSE j \in below : \A m \in below : m <= j

\* C15: on a list built by inserts, the list's bisect(k) returns the largest
\* key of the list that is at most k, and absent when every key is greater.
C15_ListBisect ==
  entries # <<>> =>
    \A k \in Queries :
      LET r == SkipListBisect(heap, levels, k)
      IN /\ ~r.panicked
         /\ (IF r.output = <<>> THEN None ELSE heap[r.output[1]].key)
              = LargestAtMost(entries, k)

\* C16: after any insert and delete calls, every level's size counter is the
\* number of nodes its head reaches by forward links, and is 0 exactly when
\* the head is absent.
C16_LevelSizeIsChainLen ==
  ~panicked =>
    \A i \in DOMAIN levels :
      /\ levels[i].size = Len(LevelChain(i))
      /\ levels[i].size = 0 <=> levels[i].head = None

\* The nodes of key k that the insert with result r has added to level i
AddedTo(r, i, k) ==
  {x \in Range(Chain(r.heap, r.levels[i].head)) :
     x \notin DOMAIN heap /\ r.heap[x].key = k}

\* C17: an insert off the head path with f promote flips adds one node of its
\* key to each of the levels 0..f, creating the levels that miss, and none to
\* another level; each node added above level 0 has its down link to the
\* node added one level below, which has its up link to it.
C17_PromoteInsert ==
  ~panicked =>
    \A k \in Keys, f \in 0..MaxFlipsAny :
      ~HeadPath(k) =>
        \A r \in {SkipListInsert(heap, levels, size, k, 1, f)} :
          /\ ~r.panicked
          /\ NumLevels(r.levels) > f
          /\ \A i \in DOMAIN r.levels :
               Cardinality(AddedTo(r, i, k)) = IF i <= f THEN 1 ELSE 0
          /\ \A i \in 1..f :
               \A x \in AddedTo(r, i, k), y \in AddedTo(r, i - 1, k) :
                 r.heap[x].down = y /\ r.heap[y].up = x

----------------------------------------------------------------------------
\* A standalone Level, as the tests of Level build it: the Level is kept as
\* levels[0], and `held` lists the nodes Level::insert returned whose Rc the
\* caller has kept.

\* The nodes some Rc keeps alive from outside the heap: the head, then the
\* nodes the caller holds
LevelRoots(lv, hd) ==
  Heads(lv, 0) \o SelectSeq(hd, LAMBDA x : x \notin Range(Heads(lv, 0)))

\* Rc drop and the naming of the live nodes (see Rename), the caller's nodes
\* renamed with them
CanonicalHeld(h, lv, hd) ==
  LET Named(o) ==
        [heap |-> Rename(h, lv, o).heap,
         levels |-> Rename(h, lv, o).levels,
         held |-> [i \in 1..Len(hd) |-> CHOOSE j \in 1..Len(o) : o[j] = hd[i]]]
  IN Named(Owned(h, LevelRoots(lv, hd), 1))

\* let node = level.insert(key, value), the caller keeping the Rc returned
\* (keep) or dropping it
LvInsert(key, value, keep) ==
  /\ ~panicked
  /\ \E r \in {LevelInsert(heap, levels[0], key, value)} :
       \E c \in {CanonicalHeld(r.heap, (0 :> r.lvl),
                               IF keep THEN Append(held, r.node) ELSE held)} :
         heap' = c.heap /\ levels' = c.levels /\ held' = c.held
  /\ ret' = Unit
  /\ UNCHANGED <<size, panicked, wrapped, entries, inserted, deletes>>

\* level.delete(&key); the usize subtraction as in Delete
LvDelete(key) ==
  /\ ~panicked
  /\ \E chk \in BOOLEAN :
       /\ wrapped => ~chk
       /\ \E r \in {LevelDelete(heap, levels[0], key, chk)} :
            /\ \E c \in {CanonicalHeld(r.heap, (0 :> r.lvl), held)} :
                 heap' = c.heap /\ levels' = c.levels /\ held' = c.held
            /\ panicked' = r.panicked
            /\ wrapped' = (wrapped \/ r.wrapped)
  /\ ret' = Unit
  /\ deletes' = deletes + 1
  /\ UNCHANGED <<size, entries, inserted>>

\* level.bisect(&key)
LvBisect(key) ==
  /\ ~panicked
  /\ ret' = [kind |-> "bisect", key |-> key, node |-> Bisect(heap, levels[0], key)]
  /\ UNCHANGED <<heap, levels, size, panicked, wrapped, entries, inserted, deletes, held>>

\* level.bisect_after(&node, &target)
LvBisectAfter(node, target) ==
  /\ ~panicked
  /\ ret' = [kind |-> "bisect_after", after |-> node, key |-> target,
             node |-> BisectAfter(heap, node, target)]
  /\ UNCHANGED <<heap, levels, size, panicked, wrapped, entries, inserted, deletes, held>>

\* The bound on the model: an insert into the Level is taken while fewer than
\* MaxSize nodes are alive and its counter is below MaxSize
CanInsertLevel ==
  /\ Cardinality(DOMAIN heap) < MaxSize
  /\ levels[0].size < MaxSize

\* The bound on the model: the caller keeps at most MaxHeld nodes
CanHold(keep) == keep => Len(held) < MaxHeld

\* Level::new, no call made yet
InitLevel == Start /\ phase = "level"

\* A Level built by Level::insert calls only, and queried.
NextLevelInsertOnly ==
  \/ \E k \in Keys, v \in Vals :
       CanInsertLevel /\ LvInsert(k, v, FALSE) /\ UNCHANGED phase
  \/ \E k \in Queries : LvBisect(k) /\ UNCHANGED phase
  \/ \E a \in DOMAIN heap, t \in Queries : LvBisectAfter(a, t) /\ UNCHANGED phase

SpecLevelInsertOnly == InitLevel /\ [][NextLevelInsertOnly]_vars

\* Any sequence of Level::insert and Level::delete calls on a new Level.
NextLevel ==
  \/ \E k \in Keys, v \in Vals, keep \in BOOLEAN :
       CanInsertLevel /\ CanHold(keep) /\ LvInsert(k, v, keep) /\ UNCHANGED phase
  \/ \E k \in Keys :
       CanDelete /\ LvDelete(k) /\ UNCHANGED phase

SpecLevel == InitLevel /\ [][NextLevel]_vars

----------------------------------------------------------------------------
\* The last node of level 0, in forward order, whose key is at most k
LastNodeAtMost(k) ==
  LET c == LevelChain(0)
      hits == {i \in 1..Len(c) : heap[c[i]].key <= k}
  IN IF hits = {} THEN None ELSE c[CHOOSE i \in hits : \A j \in hits : j <= i]

PlaceOf(n) == CHOOSE i \in 1..Len(LevelChain(0)) : LevelChain(0)[i] = n

\* C19: on a Level built by Level::insert calls only, for any node a of it,
\* bisect_after(a, t) returns no node if and only if a's key is greater than
\* t; otherwise it returns the last node in forward order whose key is at most
\* t (the tail when no node is greater than t), which is a or a node after a.
C19_LevelBisectAfter ==
  ret.kind = "bisect_after" =>
    /\ ret.after \in NodesOf(0)
    /\ ret.node = None <=> heap[ret.after].key > ret.key
    /\ heap[ret.after].key <= ret.key =>
         /\ ret.node = LastNodeAtMost(ret.key)
         /\ PlaceOf(ret.node) >= PlaceOf(ret.after)
         /\ (\A n \in NodesOf(0) : heap[n].key <= ret.key)
              => ret.node = Last(LevelChain(0))

\* bisect_after(a, t) has returned a node after a, a greater key following it
C19_Witness ==
  /\ ret.kind = "bisect_after"
  /\ ret.node # None
  /\ ret.node # ret.after
  /\ \E n \in NodesOf(0) : heap[n].key > ret.key

\* The pairs of a level, along the forward links from its head
LevelPairs(h, lvl) ==
  [i \in 1..Len(Chain(h, lvl.head)) |->
     <<h[Chain(h, lvl.head)[i]].key, h[Chain(h, lvl.head)[i]].value>>]

\* C20: on a standalone Level modified by Level::insert and Level::delete
\* only, delete(k) of a key in the chain removes exactly the first node in
\* forward order whose key is k (its successor becoming the head when it was
\* the head), keeps every other node of the chain in the same order, and
\* lowers size by one; of two nodes of key k the later-inserted one stays.
C20_LevelDelete ==
  [][\A k \in Keys :
       \/ k \notin KeysOf(LevelPairs(heap, levels[0]))
       \/ panicked'
       \/ /\ LevelPairs(heap', levels'[0]) = RefDelete(LevelPairs(heap, levels[0]), k)
          /\ levels'[0].size = levels[0].size - 1
       \/ ~LvDelete(k)]_vars

----------------------------------------------------------------------------
\* Level::insert_after, the new node allocated at n: returns the heap and the
\* node created. The Level itself (head, size) is not touched.
LevelInsertAfterAt(h, key, value, after, n) ==
  LET h0 == (n :> Node(key, value)) @@ h
  IN [heap |-> [h0 EXCEPT ![after].left = n,
                          ![n].right = h[after].right,
                          ![n].left = after,
                          ![after].right = n],
      node |-> n]

\* Level::insert_after
LevelInsertAfter(h, key, value, after) ==
  LevelInsertAfterAt(h, key, value, after, NewId(h))

\* level.insert_after(key, value, Rc::clone(&after)), after a node the caller
\* holds; the Rc returned is dropped
LvInsertAfter(key, value, after) ==
  /\ ~panicked
  /\ \E r \in {LevelInsertAfter(heap, key, value, after)} :
       \E c \in {CanonicalHeld(r.heap, levels, held)} :
         heap' = c.heap /\ levels' = c.levels /\ held' = c.held
  /\ ret' = Unit
  /\ UNCHANGED <<size, panicked, wrapped, entries, inserted, deletes>>

\* A Level built by Level::insert and Level::insert_after calls, the anchors
\* nodes that Level::insert returned.
NextLevelInsertAfter ==
  \/ \E k \in Keys, v \in Vals, keep \in BOOLEAN :
       CanInsertLevel /\ CanHold(keep) /\ LvInsert(k, v, keep) /\ UNCHANGED phase
  \/ \E k \in Keys, v \in Vals, a \in Range(held) :
       CanInsertLevel /\ LvInsertAfter(k, v, a) /\ UNCHANGED phase

SpecLevelInsertAfter == InitLevel /\ [][NextLevelInsertAfter]_vars

\* C21: insert_after(k, v, anchor) places the new node immediately after the
\* anchor, its left link resolving to the anchor and its right link to the
\* anchor's former successor, and changes no other link but the anchor's
\* right link and the former successor's left link, which becomes the new
\* node; the anchor's own left link is unchanged.
C21_InsertAfter ==
  \A a \in Range(held), k \in Keys, v \in Vals :
    \A r \in {LevelInsertAfter(heap, k, v, a)} :
      /\ r.heap[a].right = r.node
      /\ Upgrade(r.heap, r.heap[r.node].left) = a
      /\ r.heap[r.node].right = heap[a].right
      /\ heap[a].right # None => r.heap[heap[a].right].left = r.node
      /\ r.heap[a].left = heap[a].left
      /\ \A x \in DOMAIN heap \ {a, heap[a].right} : r.heap[x] = heap[x]
      /\ \A x \in DOMAIN heap : /\ r.heap[x].down = heap[x].down
                                /\ r.heap[x].up = heap[x].up

\* The keys of level i, along the forward links from its head
LevelKeys(i) == [j \in 1..Len(LevelChain(i)) |-> heap[LevelChain(i)[j]].key]

\* C22: after any sequence of insert and delete calls, in every level the keys
\* along the forward links from the head are in non-decreasing order.
C22_LevelsSorted ==
  ~panicked =>
    \A i \in DOMAIN levels :
      \A j \in 1..(Len(LevelKeys(i)) - 1) : LevelKeys(i)[j] <= LevelKeys(i)[j + 1]

\* After a delete that removed the pairs of a key, an upper level holds two
\* nodes of different keys and level 0 three nodes
C22_Witness ==
  /\ ~panicked
  /\ \E k \in inserted : k \notin KeysOf(entries)
  /\ Len(LevelKeys(0)) >= 3
  /\ \E i \in DOMAIN levels :
       i > 0 /\ Len(LevelKeys(i)) >= 2 /\ LevelKeys(i)[1] < LevelKeys(i)[2]

\* C23: after any sequence of insert and delete calls the list's size field
\* equals level 0's size counter: an insert raises both by exactly one, on
\* the head path and on the promotion path, and a delete leaves the list's
\* size at level 0's counter. The steps that add a pair to the history
\* `entries` are the inserts.
C23_SizeIsLevel0Size ==
  /\ size = levels[0].size
  /\ [][/\ panicked' \/ size' = levels'[0].size
        /\ \/ panicked'
           \/ size' = size + 1 /\ levels'[0].size = levels[0].size + 1
           \/ Len(entries') # Len(entries) + 1]_vars

\* Both counters agree on 2 after a delete although collect() has another
\* number of pairs, and the list has an upper level
C23_Witness ==
  /\ ~panicked
  /\ deletes > 0
  /\ size = 2
  /\ levels[0].size = 2
  /\ Len(CollectNow) # 2
  /\ NumLevels(levels) > 1

\* C24: after any sequence of insert and delete calls, in every level the
\* head's left link resolves to no node and the left link of every other
\* node of the chain resolves to its predecessor in the chain.
C24_LeftLinks ==
  ~panicked =>
    \A i \in DOMAIN levels :
      \A j \in 1..Len(LevelChain(i)) :
        Upgrade(heap, heap[LevelChain(i)[j]].left) =
          IF j = 1 THEN None ELSE LevelChain(i)[j - 1]

====
